---- MODULE Spec2Model ----
(***************************************************************************)
(* Model of db_project/logic.py: the two table managers, DatabaseManager   *)
(* (users / status / projects with cascading foreign keys) and DB_Manager  *)
(* (projects / skills / project_skills / status and the CRUD helpers),     *)
(* both working on the one SQLite file named by DATABASE.                  *)
(*                                                                         *)
(* A table is the sequence of its rows in rowid order, which is the order  *)
(* in which SQLite scans a table that has no other index.  An INTEGER      *)
(* PRIMARY KEY column is the rowid; a row inserted without it gets         *)
(* max(rowid) + 1, or 1 in an empty table.                                 *)
(***************************************************************************)
EXTENDS Integers, Sequences, FiniteSets, TLC

VARIABLES schema, db, last, steps

vars == <<schema, db, last, steps>>

(* ------------------------------ bounds --------------------------------- *)
\* number of calls in a run of Spec, any call of either manager
MaxSteps == 4
\* number of calls in a run of SpecSkills, the project and skill calls of
\* DB_Manager
MaxSkillSteps == 6
\* number of calls in a run of SpecCascade, the deletions under enforced
\* foreign keys
MaxCascadeSteps == 5

(* ------------------------------ values --------------------------------- *)
\* None / SQL NULL in an integer column.  The engine hands out ids from 1 and
\* callers' ids are drawn from Ids, so 0 is free to stand for it.
NULL == 0
\* None / SQL NULL in a text column
NULLTEXT == "None"

\* module-level seed lists
skills == <<"Python", "SQL", "API", "Discord">>
statuses == <<"Pembuatan Prototipe", "Dalam Pengembangan", "Selesai, siap digunakan",
              "Diperbarui", "Selesai, tapi tidak sedang dilanjutkan">>

\* schema[t] tells which create_tables made table t, "DatabaseManager" or
\* "DB_Manager" (the columns and constraints differ), or "absent"
TableNames == {"users", "status", "projects", "skills", "project_skills"}

\* inputs of the calls
Ids == {1, 2}
UserIdArgs == Ids \cup {NULL}
StatusIdArgs == {NULL, 1}
ProjectIdArgs == {1, 2}
SkillIdArgs == {2}
NameArgs == {"a", "b"}
SkillArgs == {"SQL", "Rust"}
UsernameArgs == {"bob", "al"}
StatusNameArgs == {"s1"}
ColumnArgs == {"project_name", "description", "url", "status_id", "user_id"}
TextColumns == {"project_name", "description", "url"}
TextValueArgs == {"b", NULLTEXT}

\* the rows a caller hands to insert_project
ProjectRowArgs ==
    [user_id : UserIdArgs, project_name : NameArgs,
     description : {"d"}, url : {"u"}, status_id : StatusIdArgs]

\* insert_project takes an iterable of rows: one row, or a batch of two: two
\* projects of one user under one name, or a project and a row with no
\* project_name (NOT NULL fails and the batch is rolled back)
ProjectDataArgs ==
    {<<r>> : r \in ProjectRowArgs}
    \cup {<<r, [r EXCEPT !.project_name = n]>> :
            r \in {x \in ProjectRowArgs : x.user_id = 1 /\ x.project_name = "a"
                                          /\ x.status_id = NULL},
            n \in {"a", NULLTEXT}}

(* --------------------------- SQL helpers ------------------------------- *)
\* SQL '=': never true when either side is NULL
EqInt(a, b) == a # NULL /\ b # NULL /\ a = b
EqText(a, b) == a # NULLTEXT /\ b # NULLTEXT /\ a = b

RECURSIVE MaxOf(_)
MaxOf(S) == IF S = {} THEN 0
            ELSE LET x == CHOOSE y \in S : TRUE
                     m == MaxOf(S \ {x})
                 IN  IF x > m THEN x ELSE m

\* the rowid the engine gives a new row: max(rowid) + 1
NextRowId(ids) == MaxOf(ids) + 1

Column(rows, f) == {rows[i][f] : i \in 1 .. Len(rows)}

(* ------------------------- connections --------------------------------- *)
\* DatabaseManager.execute issues PRAGMA foreign_keys = ON on its connection
DM_foreign_keys == TRUE
\* DB_Manager.__executemany opens its connection and issues no PRAGMA: the
\* engine's default, foreign keys not enforced
DB_foreign_keys == FALSE

\* does a projects row satisfy the foreign keys its table declares?
ForeignKeysHold(d, sch, row) ==
    /\ sch["projects"] = "DatabaseManager" =>
          row.user_id = NULL \/ row.user_id \in Column(d.users, "user_id")
    /\ row.status_id = NULL \/ row.status_id \in Column(d.status, "status_id")

Result(d, e) == [db |-> d, err |-> e]

(* ------------------------- DatabaseManager ----------------------------- *)
\* CREATE TABLE IF NOT EXISTS users, status, projects
DM_create_tables(sch) ==
    [t \in TableNames |->
        IF t \in {"users", "status", "projects"} /\ sch[t] = "absent"
        THEN "DatabaseManager" ELSE sch[t]]

\* list_tables: the tables present
list_tables(sch) == {t \in TableNames : sch[t] # "absent"}

\* execute("INSERT INTO users (username) VALUES (?)", (username,))
ExecInsertUser(d, sch, username) ==
    IF sch["users"] = "absent" THEN Result(d, "OperationalError")
    ELSE IF username \in Column(d.users, "username") THEN Result(d, "IntegrityError")
    ELSE Result([d EXCEPT !.users = Append(@,
                    [user_id |-> NextRowId(Column(d.users, "user_id")),
                     username |-> username])], "ok")

\* execute("INSERT INTO status (<name column>) VALUES (?)", (name,)); the
\* DatabaseManager status table declares its name UNIQUE
ExecInsertStatus(d, sch, name) ==
    IF sch["status"] = "absent" THEN Result(d, "OperationalError")
    ELSE IF sch["status"] = "DatabaseManager" /\ name \in Column(d.status, "name")
         THEN Result(d, "IntegrityError")
    ELSE Result([d EXCEPT !.status = Append(@,
                    [status_id |-> NextRowId(Column(d.status, "status_id")),
                     name |-> name])], "ok")

\* the user foreign key with ON DELETE SET NULL in place of CASCADE
OnDeleteUser_SetNull(rows, uid) ==
    [i \in 1 .. Len(rows) |->
        IF EqInt(rows[i].user_id, uid) THEN [rows[i] EXCEPT !.user_id = NULL]
        ELSE rows[i]]

\* FOREIGN KEY(user_id) REFERENCES users(user_id) ON DELETE CASCADE
OnDeleteUser(rows, uid) ==
    LET Keep(r) == ~ EqInt(r.user_id, uid) IN SelectSeq(rows, Keep)

\* FOREIGN KEY(status_id) REFERENCES status(status_id) ON DELETE SET NULL
OnDeleteStatus(rows, sid) ==
    [i \in 1 .. Len(rows) |->
        IF EqInt(rows[i].status_id, sid) THEN [rows[i] EXCEPT !.status_id = NULL]
        ELSE rows[i]]

\* execute("DELETE FROM users WHERE user_id = ?", (uid,))
ExecDeleteUser(d, sch, uid) ==
    IF sch["users"] = "absent" THEN Result(d, "OperationalError")
    ELSE IF uid \notin Column(d.users, "user_id") THEN Result(d, "ok")
    ELSE LET Keep(r) == r.user_id # uid
             d1 == [d EXCEPT !.users = SelectSeq(@, Keep)]
         IN  IF DM_foreign_keys /\ sch["projects"] = "DatabaseManager"
             THEN Result([d1 EXCEPT !.projects = OnDeleteUser(@, uid)], "ok")
             ELSE Result(d1, "ok")

\* execute("DELETE FROM status WHERE status_id = ?", (sid,)).  The DB_Manager
\* projects table declares the status foreign key with no ON DELETE action:
\* the delete fails while a project references the row.
ExecDeleteStatus(d, sch, sid) ==
    IF sch["status"] = "absent" THEN Result(d, "OperationalError")
    ELSE IF sid \notin Column(d.status, "status_id") THEN Result(d, "ok")
    ELSE LET Keep(r) == r.status_id # sid
             d1 == [d EXCEPT !.status = SelectSeq(@, Keep)]
         IN  IF ~ DM_foreign_keys \/ sch["projects"] = "absent" THEN Result(d1, "ok")
             ELSE IF sch["projects"] = "DatabaseManager"
                  THEN Result([d1 EXCEPT !.projects = OnDeleteStatus(@, sid)], "ok")
             ELSE IF sid \in Column(d.projects, "status_id")
                  THEN Result(d, "IntegrityError")
             ELSE Result(d1, "ok")

(* ----------------------------- DB_Manager ------------------------------ *)
\* CREATE TABLE projects, skills, project_skills, status, one statement after
\* the other; a CREATE TABLE of a table that exists raises
CreateOrder == <<"projects", "skills", "project_skills", "status">>

RECURSIVE CreateEach(_, _)
CreateEach(sch, ts) ==
    IF ts = <<>> THEN [schema |-> sch, err |-> "ok"]
    ELSE IF sch[Head(ts)] # "absent" THEN [schema |-> sch, err |-> "OperationalError"]
    ELSE CreateEach([sch EXCEPT ![Head(ts)] = "DB_Manager"], Tail(ts))

DB_create_tables(sch) == CreateEach(sch, CreateOrder)

\* INSERT OR IGNORE INTO skills (skill_name) values(?), once per seed.  OR
\* IGNORE skips a row that violates a uniqueness constraint; the table
\* declares none on skill_name and skill_id is handed out fresh.
RECURSIVE InsertSkills(_, _)
InsertSkills(rows, names) ==
    IF names = <<>> THEN rows
    ELSE InsertSkills(Append(rows,
            [skill_id |-> NextRowId(Column(rows, "skill_id")),
             skill_name |-> Head(names)]), Tail(names))

\* INSERT OR IGNORE INTO status (status_name) values(?), once per seed
RECURSIVE InsertStatuses(_, _)
InsertStatuses(rows, names) ==
    IF names = <<>> THEN rows
    ELSE InsertStatuses(Append(rows,
            [status_id |-> NextRowId(Column(rows, "status_id")),
             name |-> Head(names)]), Tail(names))

\* the two __executemany calls are two transactions; the status table of
\* DatabaseManager has no status_name column
default_insert(d, sch) ==
    IF sch["skills"] = "absent" THEN Result(d, "OperationalError")
    ELSE LET d1 == [d EXCEPT !.skills = InsertSkills(@, skills)]
         IN  IF sch["status"] # "DB_Manager" THEN Result(d1, "OperationalError")
             ELSE Result([d1 EXCEPT !.status = InsertStatuses(@, statuses)], "ok")

\* INSERT INTO projects (...) VALUES (?, ?, ?, ?, ?), once per row
RECURSIVE InsertProjects(_, _)
InsertProjects(rows, data) ==
    IF data = <<>> THEN rows
    ELSE InsertProjects(Append(rows,
            [project_id |-> NextRowId(Column(rows, "project_id")),
             user_id |-> Head(data).user_id,
             project_name |-> Head(data).project_name,
             description |-> Head(data).description,
             url |-> Head(data).url,
             status_id |-> Head(data).status_id]), Tail(data))

\* one transaction: a failing row rolls the whole batch back
insert_project(d, sch, data) ==
    IF sch["projects"] = "absent" THEN Result(d, "OperationalError")
    ELSE IF \E i \in 1 .. Len(data) : data[i].project_name = NULLTEXT
         THEN Result(d, "IntegrityError")
    ELSE IF DB_foreign_keys /\ \E i \in 1 .. Len(data) : ~ ForeignKeysHold(d, sch, data[i])
         THEN Result(d, "IntegrityError")
    ELSE Result([d EXCEPT !.projects = InsertProjects(@, data)], "ok")

\* the lookup without its user_id condition
SelectProjectId_AnyUser(rows, project_name, user_id) ==
    LET Match(r) == EqText(r.project_name, project_name) IN SelectSeq(rows, Match)

\* SELECT project_id FROM projects WHERE project_name = ? AND user_id = ?
SelectProjectId(rows, project_name, user_id) ==
    LET Match(r) == EqText(r.project_name, project_name) /\ EqInt(r.user_id, user_id)
    IN  SelectSeq(rows, Match)

\* SELECT skill_id FROM skills WHERE skill_name = ?
SelectSkillId(rows, skill) ==
    LET Match(r) == EqText(r.skill_name, skill) IN SelectSeq(rows, Match)

\* insert_skill that does not test the result of the skill lookup: a missing
\* skill is linked as NULL
insert_skill_any_skill(d, sch, user_id, project_name, skill) ==
    IF sch["projects"] = "absent" THEN Result(d, "OperationalError")
    ELSE LET res == SelectProjectId(d.projects, project_name, user_id)
         IN  IF res = <<>> THEN Result(d, "Project not found")
             ELSE IF sch["skills"] = "absent" \/ sch["project_skills"] = "absent"
                  THEN Result(d, "OperationalError")
             ELSE LET res2 == SelectSkillId(d.skills, skill)
                  IN  Result([d EXCEPT !.project_skills = Append(@,
                                  [project_id |-> res[1].project_id,
                                   skill_id |-> IF res2 = <<>> THEN NULL
                                                ELSE res2[1].skill_id])], "ok")

insert_skill(d, sch, user_id, project_name, skill) ==
    IF sch["projects"] = "absent" THEN Result(d, "OperationalError")
    ELSE LET res == SelectProjectId(d.projects, project_name, user_id)
         IN  IF res = <<>> THEN Result(d, "Project not found")
             ELSE IF sch["skills"] = "absent" THEN Result(d, "OperationalError")
             ELSE LET res2 == SelectSkillId(d.skills, skill)
                  IN  IF res2 = <<>> THEN Result(d, "Skill not found")
                      ELSE IF sch["project_skills"] = "absent"
                           THEN Result(d, "OperationalError")
                      ELSE Result([d EXCEPT !.project_skills = Append(@,
                                      [project_id |-> res[1].project_id,
                                       skill_id |-> res2[1].skill_id])], "ok")

\* the columns of the projects table, the same in both CREATE TABLE statements
ProjectColumns == {"project_id", "user_id", "project_name", "description", "url", "status_id"}

\* an allow-list that lets the owner column through
allowed_with_user_id ==
    {"project_name", "description", "url", "status_id", "user_id"}

\* the allow-list of update_projects
allowed == {"project_name", "description", "url", "status_id"}

\* SET <param> = ? on one row; the value is an integer for the id columns and
\* a text for the others
SetColumn(row, param, ival, tval) ==
    CASE param = "project_name" -> [row EXCEPT !.project_name = tval]
      [] param = "description"  -> [row EXCEPT !.description = tval]
      [] param = "url"          -> [row EXCEPT !.url = tval]
      [] param = "status_id"    -> [row EXCEPT !.status_id = ival]
      [] param = "user_id"      -> [row EXCEPT !.user_id = ival]
      [] OTHER                  -> row

\* ... WHERE user_id = ? AND project_id = ?
UpdateMatches(row, user_id, project_id) ==
    EqInt(row.user_id, user_id) /\ EqInt(row.project_id, project_id)

\* UPDATE projects SET <param> = ? WHERE user_id = ? AND project_id = ?
UpdateRows(rows, param, ival, tval, user_id, project_id) ==
    [i \in 1 .. Len(rows) |->
        IF UpdateMatches(rows[i], user_id, project_id)
        THEN SetColumn(rows[i], param, ival, tval) ELSE rows[i]]

\* data = (value, user_id, project_id)
update_projects(d, sch, param, ival, tval, user_id, project_id) ==
    IF param \notin allowed THEN Result(d, "Invalid column")
    ELSE IF sch["projects"] = "absent" \/ param \notin ProjectColumns
         THEN Result(d, "OperationalError")
    ELSE LET new == UpdateRows(d.projects, param, ival, tval, user_id, project_id)
         IN  IF \E i \in 1 .. Len(new) : new[i].project_name = NULLTEXT
             THEN Result(d, "IntegrityError")
             ELSE IF DB_foreign_keys /\ \E i \in 1 .. Len(new) :
                                            /\ UpdateMatches(d.projects[i], user_id, project_id)
                                            /\ ~ ForeignKeysHold(d, sch, new[i])
                  THEN Result(d, "IntegrityError")
             ELSE Result([d EXCEPT !.projects = new], "ok")

\* the delete without its user_id condition
DeleteProjectRows_AnyUser(rows, user_id, project_id) ==
    LET Keep(r) == ~ EqInt(r.project_id, project_id) IN SelectSeq(rows, Keep)

\* DELETE FROM projects WHERE user_id = ? AND project_id = ?
DeleteProjectRows(rows, user_id, project_id) ==
    LET Keep(r) == ~ (EqInt(r.user_id, user_id) /\ EqInt(r.project_id, project_id))
    IN  SelectSeq(rows, Keep)

delete_project(d, sch, user_id, project_id) ==
    IF sch["projects"] = "absent" THEN Result(d, "OperationalError")
    ELSE Result([d EXCEPT !.projects = DeleteProjectRows(@, user_id, project_id)], "ok")

\* DELETE FROM project_skills WHERE project_id = ? AND skill_id = ?
delete_skill(d, sch, project_id, skill_id) ==
    IF sch["project_skills"] = "absent" THEN Result(d, "OperationalError")
    ELSE LET Keep(r) == ~ (EqInt(r.project_id, project_id) /\ EqInt(r.skill_id, skill_id))
         IN  Result([d EXCEPT !.project_skills = SelectSeq(@, Keep)], "ok")

(* ------------------------------ queries -------------------------------- *)
Returned(e, v) == [err |-> e, ret |-> v]

get_skills(d, sch) ==
    IF sch["skills"] = "absent" THEN Returned("OperationalError", <<>>)
    ELSE Returned("ok", d.skills)

\* SELECT status_id, status_name FROM status
get_statuses(d, sch) ==
    IF sch["status"] # "DB_Manager" THEN Returned("OperationalError", <<>>)
    ELSE Returned("ok", d.status)

\* res[0][0] of the matching rows, or ValueError("Project not found")
get_project_id(d, sch, project_name, user_id) ==
    IF sch["projects"] = "absent" THEN Returned("OperationalError", NULL)
    ELSE LET res == SelectProjectId(d.projects, project_name, user_id)
         IN  IF res = <<>> THEN Returned("Project not found", NULL)
             ELSE Returned("ok", res[1].project_id)

\* ', '.join(names): the names with the separator between neighbours.  The
\* string is kept as the sequence of its pieces; no seeded skill name holds
\* the separator or another seeded name.
RECURSIVE Join(_, _)
Join(sep, names) ==
    IF Len(names) = 0 THEN <<>>
    ELSE IF Len(names) = 1 THEN names
    ELSE <<Head(names), sep>> \o Join(sep, Tail(names))

\* the skill names of the rows of skills JOIN (one project_skills row)
RECURSIVE JoinSkills(_, _)
JoinSkills(srows, ps) ==
    IF srows = <<>> THEN <<>>
    ELSE (IF EqInt(Head(srows).skill_id, ps.skill_id)
          THEN <<Head(srows).skill_name>> ELSE <<>>) \o JoinSkills(Tail(srows), ps)

\* ... of one projects row JOIN project_skills JOIN skills
RECURSIVE JoinProjectSkills(_, _, _)
JoinProjectSkills(psrows, srows, prow) ==
    IF psrows = <<>> THEN <<>>
    ELSE (IF EqInt(prow.project_id, Head(psrows).project_id)
          THEN JoinSkills(srows, Head(psrows)) ELSE <<>>)
         \o JoinProjectSkills(Tail(psrows), srows, prow)

\* SELECT skill_name FROM projects JOIN project_skills ... JOIN skills ...
\* WHERE project_name = ?
RECURSIVE SelectProjectSkills(_, _, _, _)
SelectProjectSkills(prows, psrows, srows, project_name) ==
    IF prows = <<>> THEN <<>>
    ELSE (IF EqText(Head(prows).project_name, project_name)
          THEN JoinProjectSkills(psrows, srows, Head(prows)) ELSE <<>>)
         \o SelectProjectSkills(Tail(prows), psrows, srows, project_name)

get_project_skills(d, sch, project_name) ==
    IF sch["projects"] = "absent" \/ sch["project_skills"] = "absent"
       \/ sch["skills"] = "absent"
    THEN Returned("OperationalError", <<>>)
    ELSE Returned("ok", Join(", ",
            SelectProjectSkills(d.projects, d.project_skills, d.skills, project_name)))

(* ------------------------------ the run -------------------------------- *)
\* the call that led to the current state, with its arguments and outcome
NoCall ==
    [op |-> "none", err |-> "ok", user_id |-> NULL, project_id |-> NULL, id |-> NULL,
     name |-> NULLTEXT, skill |-> NULLTEXT, param |-> NULLTEXT,
     ival |-> NULL, tval |-> NULLTEXT, data |-> <<>>]

EmptyDb ==
    [users |-> <<>>, status |-> <<>>, skills |-> <<>>, projects |-> <<>>,
     project_skills |-> <<>>]

\* a fresh database file: no table
Init ==
    /\ schema = [t \in TableNames |-> "absent"]
    /\ db = EmptyDb
    /\ last = NoCall
    /\ steps = 0

Called(r, call) ==
    /\ db' = r.db
    /\ last' = [call EXCEPT !.err = r.err]
    /\ steps' = steps + 1

DMCreateTables(max) ==
    /\ steps < max
    /\ schema' = DM_create_tables(schema)
    /\ Called(Result(db, "ok"), [NoCall EXCEPT !.op = "DatabaseManager.create_tables"])

DBCreateTables(max) ==
    /\ steps < max
    /\ LET r == DB_create_tables(schema)
       IN  /\ schema' = r.schema
           /\ Called(Result(db, r.err), [NoCall EXCEPT !.op = "DB_Manager.create_tables"])

InsertUser(max) ==
    /\ steps < max
    /\ \E u \in UsernameArgs :
          Called(ExecInsertUser(db, schema, u),
                 [NoCall EXCEPT !.op = "execute INSERT INTO users", !.name = u])
    /\ UNCHANGED schema

InsertStatus(max) ==
    /\ steps < max
    /\ \E n \in StatusNameArgs :
          Called(ExecInsertStatus(db, schema, n),
                 [NoCall EXCEPT !.op = "execute INSERT INTO status", !.name = n])
    /\ UNCHANGED schema

DeleteUser(max) ==
    /\ steps < max
    /\ \E u \in Ids :
          Called(ExecDeleteUser(db, schema, u),
                 [NoCall EXCEPT !.op = "execute DELETE FROM users", !.id = u])
    /\ UNCHANGED schema

DeleteStatus(max) ==
    /\ steps < max
    /\ \E i \in Ids :
          Called(ExecDeleteStatus(db, schema, i),
                 [NoCall EXCEPT !.op = "execute DELETE FROM status", !.id = i])
    /\ UNCHANGED schema

DefaultInsert(max) ==
    /\ steps < max
    /\ Called(default_insert(db, schema), [NoCall EXCEPT !.op = "default_insert"])
    /\ UNCHANGED schema

InsertProject(max) ==
    /\ steps < max
    /\ \E data \in ProjectDataArgs :
          Called(insert_project(db, schema, data),
                 [NoCall EXCEPT !.op = "insert_project", !.data = data])
    /\ UNCHANGED schema

InsertSkill(max) ==
    /\ steps < max
    /\ \E u \in UserIdArgs, n \in NameArgs, s \in SkillArgs :
          Called(insert_skill(db, schema, u, n, s),
                 [NoCall EXCEPT !.op = "insert_skill", !.user_id = u, !.name = n,
                                !.skill = s])
    /\ UNCHANGED schema

UpdateProjects(max) ==
    /\ steps < max
    /\ \E c \in ColumnArgs, u \in UserIdArgs, p \in ProjectIdArgs :
       \E iv \in (IF c \in TextColumns THEN {NULL} ELSE StatusIdArgs),
          tv \in (IF c \in TextColumns THEN TextValueArgs ELSE {NULLTEXT}) :
          Called(update_projects(db, schema, c, iv, tv, u, p),
                 [NoCall EXCEPT !.op = "update_projects", !.param = c, !.ival = iv,
                                !.tval = tv, !.user_id = u, !.project_id = p])
    /\ UNCHANGED schema

DeleteProject(max) ==
    /\ steps < max
    /\ \E u \in UserIdArgs, p \in ProjectIdArgs :
          Called(delete_project(db, schema, u, p),
                 [NoCall EXCEPT !.op = "delete_project", !.user_id = u, !.project_id = p])
    /\ UNCHANGED schema

DeleteSkill(max) ==
    /\ steps < max
    /\ \E p \in ProjectIdArgs, s \in SkillIdArgs :
          Called(delete_skill(db, schema, p, s),
                 [NoCall EXCEPT !.op = "delete_skill", !.project_id = p, !.id = s])
    /\ UNCHANGED schema

\* any call of either manager
Next ==
    \/ DMCreateTables(MaxSteps)
    \/ DBCreateTables(MaxSteps)
    \/ InsertUser(MaxSteps)
    \/ InsertStatus(MaxSteps)
    \/ DeleteUser(MaxSteps)
    \/ DeleteStatus(MaxSteps)
    \/ DefaultInsert(MaxSteps)
    \/ InsertProject(MaxSteps)
    \/ InsertSkill(MaxSteps)
    \/ UpdateProjects(MaxSteps)
    \/ DeleteProject(MaxSteps)
    \/ DeleteSkill(MaxSteps)

Spec == Init /\ [][Next]_vars

\* the calls of DB_Manager that projects and their skills go through
NextSkills ==
    \/ DBCreateTables(MaxSkillSteps)
    \/ DefaultInsert(MaxSkillSteps)
    \/ InsertProject(MaxSkillSteps)
    \/ InsertSkill(MaxSkillSteps)
    \/ DeleteProject(MaxSkillSteps)
    \/ DeleteSkill(MaxSkillSteps)

SpecSkills == Init /\ [][NextSkills]_vars

\* table creation by either manager, insert_project, and the inserts and
\* deletes on users and status through DatabaseManager.execute
NextCascade ==
    \/ DMCreateTables(MaxCascadeSteps)
    \/ DBCreateTables(MaxCascadeSteps)
    \/ InsertUser(MaxCascadeSteps)
    \/ InsertStatus(MaxCascadeSteps)
    \/ DeleteUser(MaxCascadeSteps)
    \/ DeleteStatus(MaxCascadeSteps)
    \/ InsertProject(MaxCascadeSteps)

SpecCascade == Init /\ [][NextCascade]_vars

(* ======================== properties of the calls ======================= *)
Present(t) == schema[t] # "absent"

\* how often x occurs in the sequence s
Occurrences(s, x) == Cardinality({i \in 1 .. Len(s) : s[i] = x})

(* ------------------------------------------------------------------------ *)
\* C1: create_tables() is idempotent: called when the tables of an earlier
\* create_tables() call of the same manager are there, it completes without
\* error and leaves the tables and their rows as they were.
C1_CreateTablesIdempotent ==
    [][ \/ /\ last'.op = "DB_Manager.create_tables"
           /\ \A i \in 1 .. Len(CreateOrder) : Present(CreateOrder[i])
        \/ /\ last'.op = "DatabaseManager.create_tables"
           /\ Present("users") /\ Present("status") /\ Present("projects")
        => last'.err = "ok" /\ schema' = schema /\ db' = db ]_vars

(* ------------------------------------------------------------------------ *)
\* every name of the seed list occurs exactly once in the column, and the
\* table has no other row
SeededOnce(rows, f, seeds) ==
    /\ Len(rows) = Len(seeds)
    /\ \A k \in 1 .. Len(seeds) :
          Cardinality({i \in 1 .. Len(rows) : rows[i][f] = seeds[k]}) = 1

\* C2: after n >= 1 default_insert() calls on freshly created tables,
\* get_skills() and get_statuses() hold exactly the seeded rows, each seeded
\* name once: a repeated call adds no row.
C2_SeedsOnce ==
    last.op = "default_insert" /\ last.err = "ok" =>
        /\ SeededOnce(get_skills(db, schema).ret, "skill_name", skills)
        /\ SeededOnce(get_statuses(db, schema).ret, "name", statuses)

(* ------------------------------------------------------------------------ *)
\* C3: after insert_skill(user_id, project_name, skill) on an existing
\* project and skill, get_project_skills(project_name) includes the skill
\* name, and project_skills holds a single row for the (project_id,
\* skill_id) pair, also when insert_skill was called before with the same
\* arguments.
C3_SkillLinkedOnce ==
    last.op = "insert_skill" /\ last.err = "ok" =>
        LET got == get_project_skills(db, schema, last.name)
            pid == get_project_id(db, schema, last.name, last.user_id).ret
            sids == {db.skills[i].skill_id : i \in
                        {j \in 1 .. Len(db.skills) : db.skills[j].skill_name = last.skill}}
        IN  /\ got.err = "ok"
            /\ Occurrences(got.ret, last.skill) >= 1
            /\ \A sid \in sids :
                  Cardinality({i \in 1 .. Len(db.project_skills) :
                                  /\ db.project_skills[i].project_id = pid
                                  /\ db.project_skills[i].skill_id = sid}) <= 1

(* ------------------------------------------------------------------------ *)
\* the four columns update_projects accepts
UpdatableColumns == {"project_name", "description", "url", "status_id"}

\* the value the call passes for a column
ValuePassed(call) == IF call.param \in TextColumns THEN call.tval ELSE call.ival

\* C4: update_projects(column, (value, user_id, project_id)) with one of the
\* four accepted columns changes only that column, only in the row with that
\* user_id and project_id, and no other table; with any other column it
\* raises the invalid-column error and changes no table.
C4_UpdateOnlyThatColumn ==
    [][ last'.op = "update_projects" =>
          /\ schema' = schema
          /\ IF last'.param \in UpdatableColumns
             THEN /\ \A t \in TableNames \ {"projects"} : db'[t] = db[t]
                  /\ Len(db'.projects) = Len(db.projects)
                  /\ \A i \in 1 .. Len(db.projects) :
                        LET old == db.projects[i]
                            new == db'.projects[i]
                            hit == /\ old.user_id # NULL
                                   /\ old.user_id = last'.user_id
                                   /\ old.project_id = last'.project_id
                        IN  /\ \A c \in ProjectColumns \ {last'.param} : new[c] = old[c]
                            /\ ~ hit => new = old
                            /\ hit /\ last'.err = "ok" => new[last'.param] = ValuePassed(last')
                            /\ last'.err # "ok" => new = old
             ELSE last'.err = "Invalid column" /\ db' = db ]_vars

\* an update has set the description of one project and left another
\* project's description as inserted
C4_Witness ==
    /\ last.op = "update_projects" /\ last.err = "ok" /\ last.param = "description"
    /\ \E i, j \in 1 .. Len(db.projects) :
          /\ db.projects[i].project_id = last.project_id
          /\ db.projects[i].user_id = last.user_id
          /\ db.projects[i].description = last.tval
          /\ db.projects[j].description = "d"

(* ------------------------------------------------------------------------ *)
\* the project_ids of the rows with this name and this (non-null) user
IdsOf(project_name, user_id) ==
    {db.projects[i].project_id : i \in
        {j \in 1 .. Len(db.projects) :
            /\ db.projects[j].project_name = project_name
            /\ user_id # NULL
            /\ db.projects[j].user_id = user_id}}

\* C5 as stated: for every project row present, get_project_id(project_name,
\* user_id) returns that row's project_id, also with several projects of one
\* name; for a pair that matches no row it raises the not-found error.
C5_EveryRowResolves ==
    Present("projects") =>
        /\ \A i \in 1 .. Len(db.projects) :
              LET got == get_project_id(db, schema, db.projects[i].project_name,
                                        db.projects[i].user_id)
              IN  got.err = "ok" /\ got.ret = db.projects[i].project_id
        /\ \A n \in NameArgs, u \in UserIdArgs :
              IdsOf(n, u) = {} =>
                  get_project_id(db, schema, n, u).err = "Project not found"

\* C5 amended: get_project_id(project_name, user_id) returns the lowest
\* project_id among the rows with that name and that user_id, which is a
\* row's own id when no earlier row shares its name and user; it raises the
\* not-found error when no row has the pair, and always for a null user_id.
C5_LowestMatchingId ==
    Present("projects") =>
        \A n \in NameArgs, u \in UserIdArgs :
            LET got == get_project_id(db, schema, n, u)
            IN  IF IdsOf(n, u) = {}
                THEN got.err = "Project not found"
                ELSE /\ got.err = "ok"
                     /\ got.ret \in IdsOf(n, u)
                     /\ \A k \in IdsOf(n, u) : got.ret <= k

\* two projects of one user under one name, a project of that name of
\* another user, and a project of nobody
C5_Witness ==
    \E i, j, k, l \in 1 .. Len(db.projects) :
        /\ i < j
        /\ db.projects[i].project_name = db.projects[j].project_name
        /\ db.projects[i].user_id = 1 /\ db.projects[j].user_id = 1
        /\ db.projects[k].project_name = db.projects[i].project_name
        /\ db.projects[k].user_id = 2
        /\ db.projects[l].user_id = NULL

(* ------------------------------------------------------------------------ *)
\* C6: every project row with a non-null user_id references a users row, and
\* every project row with a non-null status_id references a status row.
C6_ReferencesExist ==
    \A i \in 1 .. Len(db.projects) :
        /\ db.projects[i].user_id # NULL =>
              \E j \in 1 .. Len(db.users) : db.users[j].user_id = db.projects[i].user_id
        /\ db.projects[i].status_id # NULL =>
              \E j \in 1 .. Len(db.status) :
                  db.status[j].status_id = db.projects[i].status_id

(* ------------------------------------------------------------------------ *)
\* the step deleted the row with the id it was called with
DeletedRow(t, f) ==
    /\ \E i \in 1 .. Len(db[t]) : db[t][i][f] = last'.id
    /\ ~ \E i \in 1 .. Len(db'[t]) : db'[t][i][f] = last'.id

\* after the deletion of user uid: the projects of other users and of nobody,
\* in their order, and nothing else
ProjectsMinusUser ==
    LET NotTheirs(r) == r.user_id # last'.id IN db'.projects = SelectSeq(db.projects, NotTheirs)

\* after the deletion of a status: the same projects, with status_id NULL
\* where it was the deleted status
ProjectsStatusNulled ==
    /\ Len(db'.projects) = Len(db.projects)
    /\ \A i \in 1 .. Len(db.projects) :
          db'.projects[i] =
              IF db.projects[i].status_id = last'.id
              THEN [db.projects[i] EXCEPT !.status_id = NULL]
              ELSE db.projects[i]

DeletesCascade ==
    /\ last'.op = "execute DELETE FROM users" /\ DeletedRow("users", "user_id")
          => ProjectsMinusUser
    /\ last'.op = "execute DELETE FROM status" /\ DeletedRow("status", "status_id")
          => ProjectsStatusNulled

\* C7 as stated: deleting a users row removes every project of that user and
\* no other project; deleting a status row sets status_id to NULL on every
\* project that referenced it and deletes none.
C7_DeletesCascade == [][ DeletesCascade ]_vars

\* C7 amended: the same, when the projects table is the one
\* DatabaseManager.create_tables creates (ON DELETE CASCADE on user_id, ON
\* DELETE SET NULL on status_id) and the row is deleted through
\* DatabaseManager.execute.
C7_DeletesCascadeOnCascadeSchema ==
    [][ schema["projects"] = "DatabaseManager" => DeletesCascade ]_vars

\* user 1 was deleted under the cascading schema: project 1 went with it (no
\* other call of this specification deletes a project), project 2 stayed
C7_Witness ==
    /\ last.op = "execute DELETE FROM users" /\ last.err = "ok" /\ last.id = 1
    /\ schema["projects"] = "DatabaseManager"
    /\ ~ \E j \in 1 .. Len(db.users) : db.users[j].user_id = 1
    /\ Len(db.projects) = 1
    /\ db.projects[1].project_id = 2

(* ------------------------------------------------------------------------ *)
NoProjectNamed(project_name, user_id) ==
    ~ \E i \in 1 .. Len(db.projects) :
          /\ db.projects[i].project_name = project_name
          /\ user_id # NULL
          /\ db.projects[i].user_id = user_id

NoSkillNamed(skill) ==
    ~ \E i \in 1 .. Len(db.skills) : db.skills[i].skill_name = skill

\* C8: with the tables in place, insert_skill(user_id, project_name, skill)
\* raises the not-found error when no project has that name and user, and
\* when the project exists but no skill has that name; in both cases no
\* table changes.
C8_InsertSkillNotFound ==
    [][ last'.op = "insert_skill" /\ Present("projects") =>
          /\ NoProjectNamed(last'.name, last'.user_id) =>
                last'.err = "Project not found" /\ db' = db /\ schema' = schema
          /\ /\ ~ NoProjectNamed(last'.name, last'.user_id)
             /\ Present("skills")
             /\ NoSkillNamed(last'.skill)
             => last'.err = "Skill not found" /\ db' = db /\ schema' = schema ]_vars

\* insert_skill found the project and, in the seeded skills table, no skill
\* of that name
C8_Witness ==
    /\ last.op = "insert_skill" /\ last.err = "Skill not found"
    /\ ~ NoProjectNamed(last.name, last.user_id)
    /\ Len(db.skills) = Len(skills)
    /\ db.project_skills = <<>>

(* ------------------------------------------------------------------------ *)
\* C9: delete_project(user_id, project_id) with a pair no project row has,
\* also when the project_id is another user's, completes without error and
\* changes no table.
C9_DeleteNoMatchNoChange ==
    [][ /\ last'.op = "delete_project"
        /\ Present("projects")
        /\ ~ \E i \in 1 .. Len(db.projects) :
                 /\ last'.user_id # NULL
                 /\ db.projects[i].user_id = last'.user_id
                 /\ db.projects[i].project_id = last'.project_id
        => last'.err = "ok" /\ db' = db /\ schema' = schema ]_vars

\* delete_project was called with the project_id of another user's project,
\* which is still there
C9_Witness ==
    /\ last.op = "delete_project" /\ last.err = "ok" /\ last.user_id # NULL
    /\ \E i \in 1 .. Len(db.projects) :
          /\ db.projects[i].project_id = last.project_id
          /\ db.projects[i].user_id # NULL
          /\ db.projects[i].user_id # last.user_id

(* ------------------------------------------------------------------------ *)
\* C10: a project that was just inserted under a name no other project has,
\* with no insert_skill call since, has get_project_skills(project_name)
\* equal to the empty string.
C10_NewProjectHasNoSkills ==
    /\ last.op = "insert_project" /\ last.err = "ok" /\ Len(last.data) = 1
    /\ Cardinality({i \in 1 .. Len(db.projects) :
                       db.projects[i].project_name = last.data[1].project_name}) = 1
    => get_project_skills(db, schema, last.data[1].project_name).ret = <<>>

====
